---- MODULE Spec2Model ----
(***************************************************************************)
(* Takuezy Housing API (src/main.py, src/schemas.py): the FastAPI handlers *)
(* over the document collections user, listing, application, payment and  *)
(* receipt.                                                                *)
(*                                                                         *)
(* Conventions.  A collection is the sequence of its documents in          *)
(* insertion (natural) order.  An ObjectId is a positive integer; str(id)  *)
(* is StrOid(id) and ObjectId(s) is ParseOid(s).  Python None is the       *)
(* string None.  A handler's observable outcome (status, detail, body) is  *)
(* recorded in the variable last.                                           *)
(* Text that is matched by $regex is a tuple of one-character strings.     *)
(* Money is an integer number of mills (1/1000 of the currency unit).      *)
(***************************************************************************)
EXTENDS Integers, Sequences, FiniteSets, TLC

VARIABLES users, listings, applications, payments, receipts,
          regs, pays, now, last

vars == <<users, listings, applications, payments, receipts,
          regs, pays, now, last>>

None == "None"

(*************************** bounds of the model ***************************)
\* The identifiers the model knows are 1..MaxOid: more than any
\* specification below stores documents.
MaxOid == 12

(**************************** program constants ***************************)
JWT_SECRET == "devsecret"
TokenMinutes == 1440
PlatformFeePercent == 5
SearchLimit == 100
UsersLimit == 200

Roles == {"tenant", "landlord", "lodge_owner", "admin"}
PricingTypes == {"monthly", "daily", "hourly"}
PropertyTypes == {"house", "room", "apartment", "lodge_room", "other"}
PaymentMethods == {"ecocash", "paynow"}
ApplicationStatuses == {"pending", "approved", "rejected"}

(************************* persistence gateway ****************************)
\* The identifier the store assigns next: unique over all collections,
\* since no document is ever deleted.
NextOid ==
    Len(users) + Len(listings) + Len(applications) + Len(payments)
        + Len(receipts) + 1

\* str(ObjectId) for the identifiers 1..MaxOid.
OidText == [id \in 1..MaxOid |-> "oid" \o ToString(id)]

OidStrings == {OidText[id] : id \in 1..MaxOid}

OidValue == [s \in OidStrings |-> CHOOSE id \in 1..MaxOid : OidText[id] = s]

StrOid(id) == OidText[id]

IsOidStr(s) == s \in OidStrings

\* ObjectId(s): the identifier s denotes; callers test IsOidStr first
\* (ObjectId raises InvalidId on any other string).
ParseOid(s) == OidValue[s]

\* create_document(collection, doc): the collection with doc stored under
\* a fresh identifier; the identifier returned is StrOid(NextOid).
CreateDocument(coll, doc) == Append(coll, [_id |-> NextOid] @@ doc)

\* find_one({"_id": id}): the position of the document, 0 when there is none.
FindById(coll, id) ==
    LET hits == {i \in 1..Len(coll) : coll[i]._id = id}
    IN  IF hits = {} THEN 0 ELSE CHOOSE i \in hits : \A j \in hits : i <= j

\* The first n elements of a sequence (cursor.limit(n)).
Take(s, n) == IF Len(s) <= n THEN s ELSE SubSeq(s, 1, n)

\* get_documents(collection, filter, limit): the matching documents in
\* storage order, at most limit of them; keep[i] says document i matches.
RECURSIVE Filtered(_, _, _)
Filtered(coll, keep, i) ==
    IF i > Len(coll) THEN <<>>
    ELSE IF keep[i] THEN <<coll[i]>> \o Filtered(coll, keep, i + 1)
    ELSE Filtered(coll, keep, i + 1)

GetDocuments(coll, keep, limit) == Take(Filtered(coll, keep, 1), limit)

(**************************** credential service **************************)
Salts == {"s1", "s2"}

\* pwd_context.hash with the salt bcrypt drew.
HashWith(salt, password) == "$2b$" \o salt \o "$" \o password

verify_password(password, password_hash) ==
    \E salt \in Salts : HashWith(salt, password) = password_hash

\* create_token({"sub": user_id}): signed with JWT_SECRET, expiring
\* 60 * 24 minutes after issue.
create_token(sub) ==
    [sub |-> sub, exp |-> now + TokenMinutes, sig |-> JWT_SECRET]

\* Token(access_token=token)
Token(token) == [access_token |-> token, token_type |-> "bearer"]

\* get_current_user: the position in users of the token's user, 0 when the
\* handler is refused with 401 (bad signature, expired, no subject, a
\* subject that is no ObjectId, or no such user; every one of them ends in
\* the except branch).
get_current_user(token) ==
    IF token.sig # JWT_SECRET \/ token.exp <= now THEN 0
    ELSE IF token.sub \in {None, ""} THEN 0
    ELSE IF ~IsOidStr(token.sub) THEN 0
    ELSE FindById(users, ParseOid(token.sub))

\* What the caller of op sees: the HTTP status and the JSON body.
Reply(op, status, body) == [op |-> op, status |-> status, body |-> body]

\* raise HTTPException(status_code, detail); an exception no handler
\* catches is a 500 whose detail here names the exception.
Fail(op, status, detail) == Reply(op, status, [detail |-> detail])

Unauthenticated(op) == Fail(op, 401, "Could not validate credentials")

(******************************* auth endpoints ***************************)
Falsy(s) == s \in {None, ""}

\* The $or filter of register: an absent email or phone contributes the
\* empty filter {}, which every document matches.
RegisterMatches(u, body) ==
    \/ IF ~Falsy(body.email) THEN u.email = body.email ELSE TRUE
    \/ IF ~Falsy(body.phone) THEN u.phone = body.phone ELSE TRUE
    \/ u.national_id = body.national_id

\* find_one of register: position of the first matching user, 0 for none.
RegisterExisting(body) ==
    LET hits == {i \in 1..Len(users) : RegisterMatches(users[i], body)}
    IN  IF hits = {} THEN 0 ELSE CHOOSE i \in hits : \A j \in hits : i <= j

\* User(...).model_dump() of register.
UserDoc(body, salt) ==
    [full_name |-> body.full_name, role |-> body.role,
     email |-> body.email, phone |-> body.phone,
     national_id |-> body.national_id,
     password_hash |-> HashWith(salt, body.password),
     is_approved |-> FALSE, id_verified |-> FALSE]

\* Lines 146-157 of register: validate, store, issue the token.
RegisterStore(body, salt) ==
    IF body.role \notin Roles
    THEN /\ last' = Fail("register", 500, "ValidationError")
         /\ UNCHANGED users
    ELSE /\ users' = CreateDocument(users, UserDoc(body, salt))
         /\ last' = Reply("register", 200,
                          Token(create_token(StrOid(NextOid))))

\* register, handled without interleaving.
Register(body, salt) ==
    /\ IF Falsy(body.email) /\ Falsy(body.phone)
       THEN /\ last' = Fail("register", 400, "Email or phone required")
            /\ UNCHANGED users
       ELSE IF RegisterExisting(body) # 0
       THEN /\ last' = Fail("register", 400, "User already exists")
            /\ UNCHANGED users
       ELSE RegisterStore(body, salt)
    /\ UNCHANGED <<listings, applications, payments, receipts, regs, pays,
                   now>>

\* The $or filter of login.
LoginMatches(u, identifier) ==
    \/ u.email = identifier
    \/ u.phone = identifier
    \/ u.national_id = identifier

LoginUser(identifier) ==
    LET hits == {i \in 1..Len(users) : LoginMatches(users[i], identifier)}
    IN  IF hits = {} THEN 0 ELSE CHOOSE i \in hits : \A j \in hits : i <= j

login(identifier, password) ==
    LET i == LoginUser(identifier)
    IN  /\ IF i = 0 \/ ~verify_password(password, users[i].password_hash)
           THEN last' = Fail("login", 401, "Invalid credentials")
           ELSE last' = Reply("login", 200,
                              Token(create_token(StrOid(users[i]._id))))
        /\ UNCHANGED <<users, listings, applications, payments, receipts,
                       regs, pays, now>>

\* Time passes: datetime.now advances by half a day between requests.
ClockStep == 720

Tick ==
    /\ now' = now + ClockStep
    /\ UNCHANGED <<users, listings, applications, payments, receipts, regs,
                   pays, last>>

Init ==
    /\ users = <<>>
    /\ listings = <<>>
    /\ applications = <<>>
    /\ payments = <<>>
    /\ receipts = <<>>
    /\ regs = <<>>
    /\ pays = <<>>
    /\ now = 0
    /\ last = Fail("start", 0, "start")

(**************** registration and login, one request at a time ***********)
AuthEmails == {None, "a@x", "b@x"}
AuthPhones == {None, "077", "078"}
AuthNationalIds == {"077", "63-1"}
AuthPasswords == {"pw1", "pw2"}
AuthRoles == {"tenant", "guest"}

AuthBodies ==
    [full_name : {"n"}, role : AuthRoles, email : AuthEmails,
     phone : AuthPhones, national_id : AuthNationalIds,
     password : AuthPasswords]

AuthIdentifiers == {"a@x", "b@x", "077", "078", "63-1", "zzz"}

AuthMaxUsers == 2
AuthMaxTicks == 2

NextAuth ==
    \/ /\ Len(users) < AuthMaxUsers
       /\ \E body \in AuthBodies, salt \in Salts : Register(body, salt)
    \/ \E identifier \in AuthIdentifiers, password \in AuthPasswords :
          login(identifier, password)
    \/ /\ now < AuthMaxTicks * ClockStep
       /\ Tick

SpecAuth == Init /\ [][NextAuth]_vars

\* What a registration request supplies, against the users stored.
SuppliesContact(body) == ~Falsy(body.email) \/ ~Falsy(body.phone)

HeldByNoUser(body) ==
    \A i \in 1..Len(users) :
        /\ ~Falsy(body.email) => users[i].email # body.email
        /\ ~Falsy(body.phone) => users[i].phone # body.phone
        /\ users[i].national_id # body.national_id

\* C1: every registration request that supplies an email or a phone (or
\* both), a valid role, and an email, phone and national_id held by no
\* stored user succeeds: exactly one user is stored and the token's subject
\* is that user's identifier.
C1_RegisterUniqueSucceeds ==
    [][\A body \in AuthBodies, salt \in Salts :
          (/\ Register(body, salt)
           /\ body.role \in Roles
           /\ SuppliesContact(body)
           /\ HeldByNoUser(body))
          => /\ last'.status = 200
             /\ Len(users') = Len(users) + 1
             /\ last'.body.access_token.sub
                   = StrOid(users'[Len(users')]._id)]_vars

\* identifier is the email, the phone or the national_id of user u.
IdentifierOf(u, identifier) ==
    identifier # None /\ LoginMatches(u, identifier)

\* C3: login with any identifier of a stored user U (email, phone or
\* national_id) and U's password returns a token whose subject is U and
\* which get_current_user resolves to U; an identifier that matches no user,
\* or a wrong password, gets 401 "Invalid credentials" and no token.
C3_LoginContract ==
    [][\A identifier \in AuthIdentifiers, password \in AuthPasswords :
          login(identifier, password) =>
             /\ \A i \in 1..Len(users) :
                   (/\ IdentifierOf(users[i], identifier)
                    /\ verify_password(password, users[i].password_hash))
                   => /\ last'.status = 200
                      /\ last'.body.access_token.sub = StrOid(users[i]._id)
                      /\ get_current_user(last'.body.access_token) = i
             /\ (\/ \A i \in 1..Len(users) :
                       ~IdentifierOf(users[i], identifier)
                 \/ \A i \in 1..Len(users) :
                       IdentifierOf(users[i], identifier)
                          => ~verify_password(password,
                                              users[i].password_hash))
                => /\ last'.status = 401
                   /\ last'.body = [detail |-> "Invalid credentials"]]_vars

(******************* register, requests handled concurrently **************)
\* Lines 134-144 of register in one worker thread: the request is refused,
\* or it has passed the find_one check and waits to store its user.
RegisterBegin(body) ==
    /\ IF Falsy(body.email) /\ Falsy(body.phone)
       THEN /\ last' = Fail("register", 400, "Email or phone required")
            /\ UNCHANGED regs
       ELSE IF RegisterExisting(body) # 0
       THEN /\ last' = Fail("register", 400, "User already exists")
            /\ UNCHANGED regs
       ELSE /\ regs' = Append(regs, body)
            /\ UNCHANGED last
    /\ UNCHANGED <<users, listings, applications, payments, receipts, pays,
                   now>>

\* Lines 146-157 of register in the thread of the k-th waiting request.
RegisterFinish(k, salt) ==
    /\ k \in 1..Len(regs)
    /\ RegisterStore(regs[k], salt)
    /\ regs' = SubSeq(regs, 1, k - 1) \o SubSeq(regs, k + 1, Len(regs))
    /\ UNCHANGED <<listings, applications, payments, receipts, pays, now>>

RaceBodies ==
    [full_name : {"n"}, role : {"tenant", "guest"}, email : {None, "a@x"},
     phone : {None, "077"}, national_id : {"63-1", "63-2"},
     password : {"pw1"}]

RaceMaxUsers == 3
RaceMaxInflight == 2

NextRace ==
    \/ /\ Len(regs) < RaceMaxInflight
       /\ Len(users) + Len(regs) < RaceMaxUsers
       /\ \E body \in RaceBodies : RegisterBegin(body)
    \/ \E k \in 1..Len(regs), salt \in Salts : RegisterFinish(k, salt)

SpecRace == Init /\ [][NextRace]_vars

\* C2: under any interleaving of register requests no two stored users
\* share a national_id, a non-null email or a non-null phone.
C2_UsersUnique ==
    \A i, j \in 1..Len(users) :
        i < j =>
           /\ users[i].national_id # users[j].national_id
           /\ users[i].email # None => users[i].email # users[j].email
           /\ users[i].phone # None => users[i].phone # users[j].phone

(********************************* listings *******************************)
NoValue == <<>>
Some(v) == <<v>>

ListingOwnerRoles == {"landlord", "lodge_owner", "admin"}
\* The applicants as the refusals word them ("Only tenants can ..."), with
\* no admin among them.
TenantsOnly == {"tenant"}

ApplicantRoles == {"tenant", "admin"}

\* Location(**body.location): lat and lng are required, address defaults
\* to None, any other key is dropped.
LocationValid(loc) == {"lat", "lng"} \subseteq DOMAIN loc

LocationDoc(loc) ==
    [lat |-> loc.lat, lng |-> loc.lng,
     address |-> IF "address" \in DOMAIN loc THEN loc.address ELSE None]

\* The constraints of schemas.Listing that ListingCreate does not state.
ListingValid(body) ==
    /\ body.price >= 0
    /\ body.pricing_type \in PricingTypes
    /\ body.property_type \in PropertyTypes
    /\ LocationValid(body.location)

\* Listing(...).model_dump() of create_listing.
ListingDoc(owner, body) ==
    [owner_id |-> StrOid(owner._id), title |-> body.title,
     description |-> body.description, price |-> body.price,
     pricing_type |-> body.pricing_type,
     property_type |-> body.property_type,
     facilities |-> body.facilities, media_urls |-> body.media_urls,
     location |-> LocationDoc(body.location),
     is_available |-> body.is_available]

create_listing(token, body) ==
    LET cur == get_current_user(token)
    IN  /\ IF cur = 0
           THEN /\ last' = Unauthenticated("create_listing")
                /\ UNCHANGED listings
           ELSE IF users[cur].role \notin ListingOwnerRoles
           THEN /\ last' = Fail("create_listing", 403,
                                "Only owners can create listings")
                /\ UNCHANGED listings
           ELSE IF ~ListingValid(body)
           THEN /\ last' = Fail("create_listing", 500, "ValidationError")
                /\ UNCHANGED listings
           ELSE /\ listings' = CreateDocument(listings,
                                              ListingDoc(users[cur], body))
                /\ last' = Reply("create_listing", 200,
                                 [id |-> StrOid(NextOid)])
        /\ UNCHANGED <<users, applications, payments, receipts, regs, pays,
                       now>>

\* Case folding of the "i" option.
Fold(c) == IF c = "A" THEN "a" ELSE IF c = "B" THEN "b" ELSE c

\* {"$regex": q, "$options": "i"}: q is a regular expression, not a
\* literal.  Of the metacharacters the model knows "$", the end-of-subject
\* assertion; every other character stands for itself, case folded.
RECURSIVE RegexMatchAt(_, _, _)
RegexMatchAt(q, text, i) ==
    IF q = <<>> THEN TRUE
    ELSE IF Head(q) = "$"
    THEN i = Len(text) + 1 /\ RegexMatchAt(Tail(q), text, i)
    ELSE /\ i <= Len(text)
         /\ Fold(text[i]) = Fold(Head(q))
         /\ RegexMatchAt(Tail(q), text, i + 1)

RegexSearch(q, text) ==
    \E i \in 1..(Len(text) + 1) : RegexMatchAt(q, text, i)

\* The filter search_listings builds, applied to one listing.
SearchMatches(l, q, property_type, min_price, max_price, is_available) ==
    /\ ~Falsy(property_type) => l.property_type = property_type
    /\ is_available # NoValue => l.is_available = is_available[1]
    /\ min_price # NoValue => l.price >= min_price[1]
    /\ max_price # NoValue => l.price <= max_price[1]
    /\ q # <<>> =>
          \/ RegexSearch(q, l.title)
          \/ l.description # NoValue /\ RegexSearch(q, l.description[1])
          \/ \E k \in 1..Len(l.facilities) : RegexSearch(q, l.facilities[k])

\* r["_id"] = str(r["_id"]) over the documents returned.
Stringified(docs) ==
    [k \in 1..Len(docs) |-> [docs[k] EXCEPT !._id = StrOid(docs[k]._id)]]

search_listings(q, property_type, min_price, max_price, is_available) ==
    LET keep == [i \in 1..Len(listings) |->
                    SearchMatches(listings[i], q, property_type, min_price,
                                  max_price, is_available)]
        results == GetDocuments(listings, keep, SearchLimit)
    IN  /\ last' = Reply("search_listings", 200,
                         [items |-> Stringified(results)])
        /\ UNCHANGED <<users, listings, applications, payments, receipts,
                       regs, pays, now>>

\* update_one({"_id": id}, {"$set": patch}) on the document at position i.
UpdateOne(coll, i, patch) == [coll EXCEPT ![i] = patch @@ coll[i]]

\* The ownership test without the role clause: an admin who does not own
\* the listing is refused.
OwnerOnly(listing, cur) == listing.owner_id = StrOid(cur._id)

OwnerOrAdmin(listing, cur) ==
    listing.owner_id = StrOid(cur._id) \/ cur.role = "admin"

update_availability(token, listing_id, is_available) ==
    LET cur == get_current_user(token)
        i == IF IsOidStr(listing_id)
             THEN FindById(listings, ParseOid(listing_id)) ELSE 0
    IN  /\ IF cur = 0
           THEN /\ last' = Unauthenticated("update_availability")
                /\ UNCHANGED listings
           ELSE IF ~IsOidStr(listing_id)
           THEN /\ last' = Fail("update_availability", 500, "InvalidId")
                /\ UNCHANGED listings
           ELSE IF i = 0
           THEN /\ last' = Fail("update_availability", 404,
                                "Listing not found")
                /\ UNCHANGED listings
           ELSE IF ~OwnerOrAdmin(listings[i], users[cur])
           THEN /\ last' = Fail("update_availability", 403, "Not allowed")
                /\ UNCHANGED listings
           ELSE /\ listings' = UpdateOne(listings, i,
                                  [is_available |-> is_available,
                                   updated_at |-> now])
                /\ last' = Reply("update_availability", 200,
                                 [success |-> TRUE])
        /\ UNCHANGED <<users, applications, payments, receipts, regs, pays,
                       now>>

(******************************* applications *****************************)
\* Application(...).model_dump() of apply.
ApplicationDoc(cur, body) ==
    [listing_id |-> body.listing_id, tenant_id |-> StrOid(cur._id),
     message |-> body.message, national_id |-> body.national_id,
     status |-> "pending"]

apply(token, body) ==
    LET cur == get_current_user(token)
    IN  /\ IF cur = 0
           THEN /\ last' = Unauthenticated("apply")
                /\ UNCHANGED applications
           ELSE IF users[cur].role \notin ApplicantRoles
           THEN /\ last' = Fail("apply", 403, "Only tenants can apply")
                /\ UNCHANGED applications
           ELSE IF ~IsOidStr(body.listing_id)
           THEN /\ last' = Fail("apply", 500, "InvalidId")
                /\ UNCHANGED applications
           ELSE IF FindById(listings, ParseOid(body.listing_id)) = 0
           THEN /\ last' = Fail("apply", 404, "Listing not found")
                /\ UNCHANGED applications
           ELSE /\ applications' =
                      CreateDocument(applications,
                                     ApplicationDoc(users[cur], body))
                /\ last' = Reply("apply", 200, [id |-> StrOid(NextOid)])
        /\ UNCHANGED <<users, listings, payments, receipts, regs, pays,
                       now>>

\* "approved" if approve else "rejected"
\* A refusal that reopens the application instead of rejecting it.
DecidedOrPending(approve) == IF approve THEN "approved" ELSE "pending"

DecidedStatus(approve) == IF approve THEN "approved" ELSE "rejected"

approve_application(token, application_id, approve) ==
    LET cur == get_current_user(token)
        a == IF IsOidStr(application_id)
             THEN FindById(applications, ParseOid(application_id)) ELSE 0
        l == IF a = 0 THEN 0
             ELSE FindById(listings, ParseOid(applications[a].listing_id))
    IN  /\ IF cur = 0
           THEN /\ last' = Unauthenticated("approve_application")
                /\ UNCHANGED applications
           ELSE IF ~IsOidStr(application_id)
           THEN /\ last' = Fail("approve_application", 500, "InvalidId")
                /\ UNCHANGED applications
           ELSE IF a = 0
           THEN /\ last' = Fail("approve_application", 404,
                                "Application not found")
                /\ UNCHANGED applications
           ELSE IF l = 0
           THEN /\ last' = Fail("approve_application", 404,
                                "Listing not found")
                /\ UNCHANGED applications
           ELSE IF ~OwnerOrAdmin(listings[l], users[cur])
           THEN /\ last' = Fail("approve_application", 403, "Not allowed")
                /\ UNCHANGED applications
           ELSE /\ applications' = UpdateOne(applications, a,
                                     [status |-> DecidedStatus(approve),
                                      updated_at |-> now])
                /\ last' = Reply("approve_application", 200,
                                 [success |-> TRUE])
        /\ UNCHANGED <<users, listings, payments, receipts, regs, pays,
                       now>>

(********************************** payments ******************************)
\* round(x, 2) of the float x = num / den currency units, as a set of
\* results in cents: the nearest cent, and at an exact decimal tie either
\* neighbour, since the binary float the code rounds lies just above or
\* just below the tie.
RoundCents(num, den) ==
    LET scaled == 100 * num
        lo == scaled \div den
        rest == scaled % den
    IN  IF 2 * rest < den THEN {lo}
        ELSE IF 2 * rest > den THEN {lo + 1}
        ELSE {lo, lo + 1}

\* round(amount * 0.05, 2), in mills, for an amount in mills.
PlatformFees(amount) ==
    {10 * c : c \in RoundCents(PlatformFeePercent * amount, 100 * 1000)}

\* The owner amount with the fee not deducted.
OwnerAmountsGross(amount, platform_fee) ==
    {10 * c : c \in RoundCents(amount, 1000)}

\* round(amount - platform_fee, 2), in mills.
OwnerAmounts(amount, platform_fee) ==
    {10 * c : c \in RoundCents(amount - platform_fee, 1000)}

\* Payment(...).model_dump() of init_payment.
PaymentDoc(listing, cur, body, amount, platform_fee, owner_amount) ==
    [listing_id |-> StrOid(listing._id), tenant_id |-> StrOid(cur._id),
     owner_id |-> listing.owner_id, amount |-> amount,
     method |-> body.method, platform_fee |-> platform_fee,
     owner_amount |-> owner_amount, status |-> "successful",
     receipt_id |-> None]

PLATFORM_PHONE == "+263 778 864 239"

\* f"TAK-{payment_id[:6].upper()}", for the identifiers StrOid yields.
Reference(payment_id) ==
    "TAK-" \o "OID" \o ToString(ParseOid(payment_id))

ReceiptDoc(payment_id, amount, platform_fee, owner_amount) ==
    [payment_id |-> payment_id, total |-> amount,
     owner_amount |-> owner_amount, platform_fee |-> platform_fee,
     payee_phone |-> PLATFORM_PHONE, reference |-> Reference(payment_id)]

\* init_payment up to create_document("payment", ...) (lines 287-311):
\* the request is refused, or its payment is stored and the request goes
\* on to the receipt.
init_payment(token, body) ==
    LET cur == get_current_user(token)
        l == IF IsOidStr(body.listing_id)
             THEN FindById(listings, ParseOid(body.listing_id)) ELSE 0
    IN  /\ IF cur = 0
           THEN /\ last' = Unauthenticated("init_payment")
                /\ UNCHANGED <<payments, pays>>
           ELSE IF users[cur].role \notin ApplicantRoles
           THEN /\ last' = Fail("init_payment", 403, "Only tenants can pay")
                /\ UNCHANGED <<payments, pays>>
           ELSE IF ~IsOidStr(body.listing_id)
           THEN /\ last' = Fail("init_payment", 500, "InvalidId")
                /\ UNCHANGED <<payments, pays>>
           ELSE IF l = 0
           THEN /\ last' = Fail("init_payment", 404, "Listing not found")
                /\ UNCHANGED <<payments, pays>>
           ELSE IF body.method \notin PaymentMethods
           THEN /\ last' = Fail("init_payment", 500, "ValidationError")
                /\ UNCHANGED <<payments, pays>>
           ELSE \E platform_fee \in PlatformFees(listings[l].price) :
                \E owner_amount \in
                       OwnerAmounts(listings[l].price, platform_fee) :
                   /\ payments' =
                         CreateDocument(payments,
                            PaymentDoc(listings[l], users[cur], body,
                                       listings[l].price, platform_fee,
                                       owner_amount))
                   /\ pays' = Append(pays,
                         [payment_id |-> StrOid(NextOid),
                          amount |-> listings[l].price,
                          platform_fee |-> platform_fee,
                          owner_amount |-> owner_amount,
                          receipt_id |-> None])
                   /\ UNCHANGED last
        /\ UNCHANGED <<users, listings, applications, receipts, regs, now>>

\* Lines 313-314: the k-th request in flight stores its receipt.
init_payment_receipt(k) ==
    /\ k \in 1..Len(pays)
    /\ pays[k].receipt_id = None
    /\ receipts' = CreateDocument(receipts,
                      ReceiptDoc(pays[k].payment_id, pays[k].amount,
                                 pays[k].platform_fee, pays[k].owner_amount))
    /\ pays' = [pays EXCEPT ![k].receipt_id = StrOid(NextOid)]
    /\ UNCHANGED <<users, listings, applications, payments, regs, now, last>>

\* The link made on the first payment stored, not on the request's own.
init_payment_link_first(k) ==
    /\ k \in 1..Len(pays)
    /\ pays[k].receipt_id # None
    /\ payments' = UpdateOne(payments, 1, [receipt_id |-> pays[k].receipt_id])
    /\ last' = Reply("init_payment", 200,
                     [payment_id |-> pays[k].payment_id,
                      receipt_id |-> pays[k].receipt_id,
                      owner_amount |-> pays[k].owner_amount,
                      platform_fee |-> pays[k].platform_fee])
    /\ pays' = SubSeq(pays, 1, k - 1) \o SubSeq(pays, k + 1, Len(pays))
    /\ UNCHANGED <<users, listings, applications, receipts, regs, now>>

\* Lines 316-319: the k-th request links its receipt and returns.
init_payment_link(k) ==
    /\ k \in 1..Len(pays)
    /\ pays[k].receipt_id # None
    /\ payments' = UpdateOne(payments,
                      FindById(payments, ParseOid(pays[k].payment_id)),
                      [receipt_id |-> pays[k].receipt_id])
    /\ last' = Reply("init_payment", 200,
                     [payment_id |-> pays[k].payment_id,
                      receipt_id |-> pays[k].receipt_id,
                      owner_amount |-> pays[k].owner_amount,
                      platform_fee |-> pays[k].platform_fee])
    /\ pays' = SubSeq(pays, 1, k - 1) \o SubSeq(pays, k + 1, Len(pays))
    /\ UNCHANGED <<users, listings, applications, receipts, regs, now>>

\* The persistence call the k-th request makes next raises: the request
\* ends as an unhandled fault, and what it has stored stays.
init_payment_fault(k) ==
    /\ k \in 1..Len(pays)
    /\ last' = Fail("init_payment", 500, "PyMongoError")
    /\ pays' = SubSeq(pays, 1, k - 1) \o SubSeq(pays, k + 1, Len(pays))
    /\ UNCHANGED <<users, listings, applications, payments, receipts, regs,
                   now>>

(******************************* admin actions ****************************)
\* current.get("role") != "admin" refuses everyone for whom this is false.
\* The role check with landlords let through.
IsAdminOrLandlord(cur) == cur.role \in {"admin", "landlord"}

IsAdmin(cur) == cur.role = "admin"

list_users(token) ==
    LET cur == get_current_user(token)
        keep == [i \in 1..Len(users) |-> TRUE]
    IN  /\ IF cur = 0
           THEN last' = Unauthenticated("list_users")
           ELSE IF ~IsAdmin(users[cur])
           THEN last' = Fail("list_users", 403, "Admin only")
           ELSE last' = Reply("list_users", 200, [items |-> Stringified(
                                 GetDocuments(users, keep, UsersLimit))])
        /\ UNCHANGED <<users, listings, applications, payments, receipts,
                       regs, pays, now>>

\* approve_user and verify_id: the same handler but for the field set.
AdminSet(op, token, user_id, patch, flag) ==
    LET cur == get_current_user(token)
        i == IF IsOidStr(user_id)
             THEN FindById(users, ParseOid(user_id)) ELSE 0
    IN  /\ IF cur = 0
           THEN /\ last' = Unauthenticated(op)
                /\ UNCHANGED users
           ELSE IF ~IsAdmin(users[cur])
           THEN /\ last' = Fail(op, 403, "Admin only")
                /\ UNCHANGED users
           ELSE IF ~IsOidStr(user_id)
           THEN /\ last' = Fail(op, 500, "InvalidId")
                /\ UNCHANGED users
           ELSE /\ users' = IF i = 0 THEN users
                            ELSE UpdateOne(users, i, patch)
                /\ last' = Reply(op, 200, [success |-> TRUE])
        /\ UNCHANGED <<listings, applications, payments, receipts, regs,
                       pays, now>>

approve_user(token, user_id, approve) ==
    AdminSet("approve_user", token, user_id,
             [is_approved |-> approve, updated_at |-> now], approve)

verify_id(token, user_id, verified) ==
    AdminSet("verify_id", token, user_id,
             [id_verified |-> verified, updated_at |-> now], verified)

(************** the marketplace: requests of registered users *************)
\* The people who register: an administrator, a landlord and a tenant.
Admin ==
    [full_name |-> "Ada", role |-> "admin", email |-> "ada@x",
     phone |-> "071", national_id |-> "63-A", password |-> "pw1"]
Landlord ==
    [full_name |-> "Lee", role |-> "landlord", email |-> "lee@x",
     phone |-> "072", national_id |-> "63-L", password |-> "pw2"]
Tenant ==
    [full_name |-> "Tom", role |-> "tenant", email |-> "tom@x",
     phone |-> "073", national_id |-> "63-T", password |-> "pw3"]

People == {Admin, Landlord, Tenant}

\* The bearer tokens requests carry: the token register gave each stored
\* user (issued at time 0), and one signed with another key.
TokenOf(i) ==
    [sub |-> StrOid(users[i]._id), exp |-> TokenMinutes, sig |-> JWT_SECRET]

ForgedToken == [sub |-> StrOid(1), exp |-> TokenMinutes, sig |-> "forged"]

Tokens == {TokenOf(i) : i \in 1..Len(users)} \cup {ForgedToken}

\* Identifiers that name no document: the next identifier the store will
\* assign, and a string that is no ObjectId.
MissingIds == {StrOid(NextOid), "not-an-id"}

\* The identifiers requests name for a document of coll: those of its
\* documents, that of the first user (a document of another collection,
\* when coll is not users), and the identifiers that name nothing.
NamedIds(coll) ==
    {StrOid(coll[i]._id) : i \in 1..Len(coll)}
        \cup {StrOid(1)} \cup MissingIds

Room(price, is_available) ==
    [title |-> <<"a">>, description |-> NoValue, price |-> price,
     pricing_type |-> "monthly", property_type |-> "room",
     facilities |-> <<>>, media_urls |-> <<>>,
     location |-> [lat |-> 1, lng |-> 2], is_available |-> is_available]

RegisterPerson ==
    \E body \in People : Register(body, "s1")

(********************* applications and their decisions *******************)
\* The documents (users, listings and applications together) stored.
AppMaxDocs == 4

ApplicationBodies ==
    [listing_id : NamedIds(listings), message : {None}, national_id : {"63-T"}]

NextApplications ==
    \/ /\ NextOid <= AppMaxDocs
       /\ RegisterPerson
    \/ /\ NextOid <= AppMaxDocs
       /\ \E token \in Tokens : create_listing(token, Room(100, TRUE))
    \/ /\ NextOid <= AppMaxDocs
       /\ \E token \in Tokens, body \in ApplicationBodies :
             apply(token, body)
    \/ \E token \in Tokens, application_id \in NamedIds(applications),
          approve \in BOOLEAN :
             approve_application(token, application_id, approve)

SpecApplications == Init /\ [][NextApplications]_vars

\* The application and the listing a decision request concerns: positions
\* in applications and listings, 0 when there is none.
NamedApplication(application_id) ==
    IF IsOidStr(application_id)
    THEN FindById(applications, ParseOid(application_id)) ELSE 0

ListingOf(a) ==
    IF a = 0 THEN 0
    ELSE FindById(listings, ParseOid(applications[a].listing_id))

\* C4: approve_application on an existing application whose listing
\* exists: an actor who is neither the listing's owner nor an admin gets
\* 403 and the status stays; the owner or an admin succeeds and the status
\* becomes approved when approve is true and rejected when it is false.
C4_DecisionAuthorization ==
    [][\A token \in Tokens, application_id \in NamedIds(applications),
          approve \in BOOLEAN :
          approve_application(token, application_id, approve) =>
             LET cur == get_current_user(token)
                 a == NamedApplication(application_id)
                 l == ListingOf(a)
             IN  (cur # 0 /\ a # 0 /\ l # 0) =>
                    IF \/ listings[l].owner_id = StrOid(users[cur]._id)
                       \/ users[cur].role = "admin"
                    THEN /\ last'.status = 200
                         /\ applications'[a].status =
                               IF approve THEN "approved" ELSE "rejected"
                    ELSE /\ last'.status = 403
                         /\ applications' = applications]_vars

\* A decision was refused with 403 while an application is stored.
C4_Witness ==
    /\ last.op = "approve_application"
    /\ last.status = 403
    /\ applications # <<>>

Decided == {"approved", "rejected"}

\* C9: the only changes of Application.status are pending -> approved and
\* pending -> rejected: a decided application keeps its status.
C9_DecisionTerminal ==
    [][\A a \in 1..Len(applications) :
          applications[a].status \in Decided
             => applications'[a].status = applications[a].status]_vars

\* C9, amended: an application is created pending, and every change of a
\* status leads to approved or rejected, from whatever status it had: a
\* decided application can be decided again and never returns to pending.
C9_DecisionOverwrites ==
    [][\A a \in 1..Len(applications') :
          IF a <= Len(applications)
          THEN applications'[a].status # applications[a].status
                  => applications'[a].status \in Decided
          ELSE applications'[a].status = "pending"]_vars

\* A decision has been stored.
C9_Witness ==
    /\ last.op = "approve_application"
    /\ last.status = 200
    /\ \E a \in 1..Len(applications) : applications[a].status \in Decided

(************ every handler that names a resource or needs a role *********)
\* The documents stored, receipts apart (a payment brings its receipt).
Records ==
    Len(users) + Len(listings) + Len(applications) + Len(payments)

AccMaxDocs == 3

PaymentBodies(methods) == [listing_id : NamedIds(listings), method : methods]

\* The steps of the init_payment requests in flight.
PaymentProgress ==
    \E k \in 1..Len(pays) :
        \/ init_payment_receipt(k)
        \/ init_payment_link(k)
        \/ init_payment_fault(k)

NextAccess ==
    \/ /\ Records < AccMaxDocs
       /\ RegisterPerson
    \/ /\ Records < AccMaxDocs
       /\ \E token \in Tokens : create_listing(token, Room(100, TRUE))
    \/ \E token \in Tokens, listing_id \in NamedIds(listings) :
          update_availability(token, listing_id, FALSE)
    \/ /\ Records < AccMaxDocs
       /\ \E token \in Tokens, body \in ApplicationBodies :
             apply(token, body)
    \/ \E token \in Tokens, application_id \in NamedIds(applications) :
          approve_application(token, application_id, TRUE)
    \/ /\ Records < AccMaxDocs
       /\ \E token \in Tokens, body \in PaymentBodies({"ecocash"}) :
             init_payment(token, body)
    \/ PaymentProgress
    \/ \E token \in Tokens : list_users(token)
    \/ \E token \in Tokens, user_id \in MissingIds, approve \in BOOLEAN :
          approve_user(token, user_id, approve)
    \/ \E token \in Tokens, user_id \in MissingIds, verified \in BOOLEAN :
          verify_id(token, user_id, verified)

SpecAccess == Init /\ [][NextAccess]_vars

\* The request is authenticated and names, by a well-formed identifier, no
\* document of coll.
NamesNothing(token, id, coll) ==
    /\ get_current_user(token) # 0
    /\ IsOidStr(id)
    /\ FindById(coll, ParseOid(id)) = 0

RoleOf(token) == users[get_current_user(token)].role

\* The step ends a request of operation op (a request that names nothing
\* ends in the step that receives it, with an answer of its operation).
Answers(op) == last'.op = op

ApplicationFor(id) ==
    [listing_id |-> id, message |-> None, national_id |-> "63-T"]

PaymentFor(id) == [listing_id |-> id, method |-> "ecocash"]

\* C5: every operation that targets a resource by identifier answers a
\* request naming a non-existent resource with 404, whatever the actor's
\* role.
C5_NotFoundWhateverRole ==
    [][/\ Answers("update_availability") =>
             \A token \in Tokens, id \in NamedIds(listings) :
                (/\ NamesNothing(token, id, listings)
                 /\ update_availability(token, id, FALSE))
                => last'.status = 404
       /\ Answers("apply") =>
             \A token \in Tokens, id \in NamedIds(listings) :
                (/\ NamesNothing(token, id, listings)
                 /\ apply(token, ApplicationFor(id)))
                => last'.status = 404
       /\ Answers("init_payment") =>
             \A token \in Tokens, id \in NamedIds(listings) :
                (/\ NamesNothing(token, id, listings)
                 /\ init_payment(token, PaymentFor(id)))
                => last'.status = 404
       /\ Answers("approve_application") =>
             \A token \in Tokens, id \in NamedIds(applications) :
                (/\ NamesNothing(token, id, applications)
                 /\ approve_application(token, id, TRUE))
                => last'.status = 404
       /\ Answers("approve_user") =>
             \A token \in Tokens, id \in MissingIds, flag \in BOOLEAN :
                (/\ NamesNothing(token, id, users)
                 /\ approve_user(token, id, flag))
                => last'.status = 404
       /\ Answers("verify_id") =>
             \A token \in Tokens, id \in MissingIds, flag \in BOOLEAN :
                (/\ NamesNothing(token, id, users)
                 /\ verify_id(token, id, flag))
                => last'.status = 404]_vars

\* C5, amended: update_availability and approve_application answer a
\* non-existent target with 404 whatever the actor's role; apply and
\* init_payment check the role first, so they answer 404 to a tenant or an
\* admin and 403 to every other role; approve_user and verify_id make no
\* existence check: 403 to a non-admin, and for an admin success with no
\* user changed.
C5_NotFoundOrder ==
    [][/\ Answers("update_availability") =>
             \A token \in Tokens, id \in NamedIds(listings) :
                (/\ NamesNothing(token, id, listings)
                 /\ update_availability(token, id, FALSE))
                => last'.status = 404
       /\ Answers("apply") =>
             \A token \in Tokens, id \in NamedIds(listings) :
                (/\ NamesNothing(token, id, listings)
                 /\ apply(token, ApplicationFor(id)))
                => last'.status =
                      IF RoleOf(token) \in {"tenant", "admin"}
                      THEN 404 ELSE 403
       /\ Answers("init_payment") =>
             \A token \in Tokens, id \in NamedIds(listings) :
                (/\ NamesNothing(token, id, listings)
                 /\ init_payment(token, PaymentFor(id)))
                => last'.status =
                      IF RoleOf(token) \in {"tenant", "admin"}
                      THEN 404 ELSE 403
       /\ Answers("approve_application") =>
             \A token \in Tokens, id \in NamedIds(applications) :
                (/\ NamesNothing(token, id, applications)
                 /\ approve_application(token, id, TRUE))
                => last'.status = 404
       /\ Answers("approve_user") =>
             \A token \in Tokens, id \in MissingIds, flag \in BOOLEAN :
                (/\ NamesNothing(token, id, users)
                 /\ approve_user(token, id, flag))
                => /\ last'.status =
                         IF RoleOf(token) = "admin" THEN 200 ELSE 403
                   /\ users' = users
       /\ Answers("verify_id") =>
             \A token \in Tokens, id \in MissingIds, flag \in BOOLEAN :
                (/\ NamesNothing(token, id, users)
                 /\ verify_id(token, id, flag))
                => /\ last'.status =
                         IF RoleOf(token) = "admin" THEN 200 ELSE 403
                   /\ users' = users]_vars

\* An application for a listing that does not exist was answered 404.
C5_Witness ==
    /\ last.op = "apply"
    /\ last.status = 404
    /\ last.body = [detail |-> "Listing not found"]

(****************************** admin endpoints ***************************)
AdmMaxDocs == 2

NextAdmin ==
    \/ /\ NextOid <= AdmMaxDocs
       /\ RegisterPerson
    \/ /\ NextOid <= AdmMaxDocs
       /\ \E token \in Tokens : create_listing(token, Room(100, TRUE))
    \/ \E token \in Tokens : list_users(token)
    \/ \E token \in Tokens, user_id \in NamedIds(users),
          approve \in BOOLEAN : approve_user(token, user_id, approve)
    \/ \E token \in Tokens, user_id \in NamedIds(users),
          verified \in BOOLEAN : verify_id(token, user_id, verified)

SpecAdmin == Init /\ [][NextAdmin]_vars

\* The request is authenticated and its actor's role is not admin.
NonAdmin(token) ==
    /\ get_current_user(token) # 0
    /\ users[get_current_user(token)].role # "admin"

AdminOnlyRefusal == Fail("refused", 403, "Admin only").body

\* C7: a caller whose role is not admin gets 403 from list_users,
\* approve_user and verify_id, with no user data in the answer and no user
\* changed; and is_approved and id_verified of a user change only in a
\* step that is approve_user or verify_id called by an admin.
C7_AdminOnly ==
    [][/\ Answers("list_users") =>
             \A token \in Tokens :
                (NonAdmin(token) /\ list_users(token))
                => /\ last'.status = 403
                   /\ last'.body = AdminOnlyRefusal
       /\ Answers("approve_user") =>
             \A token \in Tokens :
                NonAdmin(token) =>
                   \A user_id \in NamedIds(users), flag \in BOOLEAN :
                      approve_user(token, user_id, flag)
                      => /\ last'.status = 403
                         /\ last'.body = AdminOnlyRefusal
                         /\ users' = users
       /\ Answers("verify_id") =>
             \A token \in Tokens :
                NonAdmin(token) =>
                   \A user_id \in NamedIds(users), flag \in BOOLEAN :
                      verify_id(token, user_id, flag)
                      => /\ last'.status = 403
                         /\ last'.body = AdminOnlyRefusal
                         /\ users' = users
       /\ (\E i \in 1..Len(users) :
              \/ users'[i].is_approved # users[i].is_approved
              \/ users'[i].id_verified # users[i].id_verified)
          => \E token \in Tokens, user_id \in NamedIds(users),
                flag \in BOOLEAN :
                /\ get_current_user(token) # 0
                /\ users[get_current_user(token)].role = "admin"
                /\ \/ approve_user(token, user_id, flag)
                   \/ verify_id(token, user_id, flag)]_vars

\* A non-admin was refused by approve_user while a user is approved or
\* verified (by an admin, earlier).
C7_Witness ==
    /\ last.op = "approve_user"
    /\ last.status = 403
    /\ \E i \in 1..Len(users) : users[i].is_approved \/ users[i].id_verified

(******************** payments, receipts and their link *******************)
PayMaxDocs == 6

NextPayments ==
    \/ /\ NextOid <= PayMaxDocs
       /\ RegisterPerson
    \/ /\ NextOid <= PayMaxDocs
       /\ \E token \in Tokens : create_listing(token, Room(100, TRUE))
    \/ /\ NextOid + Len(pays) < PayMaxDocs
       /\ \E token \in Tokens, body \in PaymentBodies({"paynow", "cash"}) :
             init_payment(token, body)
    \/ PaymentProgress

SpecPayments == Init /\ [][NextPayments]_vars

\* The receipts that name payment p.
ReceiptsOf(p) ==
    {j \in 1..Len(receipts) : receipts[j].payment_id = StrOid(p._id)}

\* C10: in every state, between the persistence steps of init_payment and
\* after a fault of any of them, every receipt's payment_id names a stored
\* payment, a payment has at most one receipt, a payment's non-null
\* receipt_id names a receipt whose payment_id is that payment, and the
\* payment a successful init_payment returned is linked to the receipt it
\* returned.
C10_ReceiptLink ==
    /\ \A j \in 1..Len(receipts) :
          \E i \in 1..Len(payments) :
             StrOid(payments[i]._id) = receipts[j].payment_id
    /\ \A i \in 1..Len(payments) :
          /\ Cardinality(ReceiptsOf(payments[i])) <= 1
          /\ payments[i].receipt_id # None
                => \E j \in ReceiptsOf(payments[i]) :
                      StrOid(receipts[j]._id) = payments[i].receipt_id
    /\ (last.op = "init_payment" /\ last.status = 200)
          => \E i \in 1..Len(payments) :
                /\ StrOid(payments[i]._id) = last.body.payment_id
                /\ payments[i].receipt_id = last.body.receipt_id
                /\ \E j \in ReceiptsOf(payments[i]) :
                      StrOid(receipts[j]._id) = last.body.receipt_id

\* A request faulted between its receipt and the link, leaving the receipt
\* unlinked, and another request has returned its linked payment.
C10_Witness ==
    /\ pays = <<>>
    /\ \E i \in 1..Len(payments) :
          payments[i].receipt_id = None /\ ReceiptsOf(payments[i]) # {}
    /\ \E i \in 1..Len(payments) : payments[i].receipt_id # None

(***************************** the 95/5 split *****************************)
FeeMaxDocs == 4
MaxPrice == 120

\* One listing is stored, at any price from -0.001 to MaxPrice / 1000; the
\* split of a payment depends on no other listing.
NextFees ==
    \/ /\ NextOid <= FeeMaxDocs
       /\ RegisterPerson
    \/ /\ NextOid <= FeeMaxDocs
       /\ listings = <<>>
       /\ \E token \in Tokens, price \in (-1)..MaxPrice :
             create_listing(token, Room(price, TRUE))
    \/ /\ NextOid + Len(pays) < FeeMaxDocs
       /\ \E token \in Tokens, body \in PaymentBodies({"ecocash"}) :
             init_payment(token, body)
    \/ PaymentProgress

SpecFees == Init /\ [][NextFees]_vars

Abs(x) == IF x < 0 THEN -x ELSE x

\* The amounts are whole cents, the fee is within half a cent of 5% of the
\* amount, and fee and owner amount add up to the amount within half a
\* cent (amounts in mills, so a cent is 10 and 5% of a is 5 * a / 100).
SplitOf(amount, platform_fee, owner_amount) ==
    /\ platform_fee % 10 = 0
    /\ owner_amount % 10 = 0
    /\ Abs(100 * platform_fee - 5 * amount) <= 500
    /\ Abs(platform_fee + owner_amount - amount) <= 5

\* C6: for every payment init_payment created from a listing of price P,
\* platform_fee is P * 0.05 rounded to 2 decimals and platform_fee +
\* owner_amount is P to 2 decimals; the receipt and the answer carry the
\* payment's fee and owner amount.
C6_FeeSplit ==
    /\ \A i \in 1..Len(payments) :
          /\ \E l \in 1..Len(listings) :
                /\ StrOid(listings[l]._id) = payments[i].listing_id
                /\ listings[l].price = payments[i].amount
          /\ SplitOf(payments[i].amount, payments[i].platform_fee,
                     payments[i].owner_amount)
    /\ \A j \in 1..Len(receipts) :
          \E i \in 1..Len(payments) :
             /\ StrOid(payments[i]._id) = receipts[j].payment_id
             /\ receipts[j].total = payments[i].amount
             /\ receipts[j].platform_fee = payments[i].platform_fee
             /\ receipts[j].owner_amount = payments[i].owner_amount
    /\ (last.op = "init_payment" /\ last.status = 200)
          => \E i \in 1..Len(payments) :
                /\ StrOid(payments[i]._id) = last.body.payment_id
                /\ last.body.platform_fee = payments[i].platform_fee
                /\ last.body.owner_amount = payments[i].owner_amount

\* init_payment has returned a payment with a fee that is not zero.
C6_Witness ==
    /\ last.op = "init_payment"
    /\ last.status = 200
    /\ last.body.platform_fee > 0
    /\ receipts # <<>>

(*************************** listings and search **************************)
LstMaxDocs == 3

\* What owners post.
Cottage ==
    [title |-> <<"$", "a">>, description |-> NoValue, price |-> 150,
     pricing_type |-> "monthly", property_type |-> "house",
     facilities |-> <<>>, media_urls |-> <<>>,
     location |-> [lat |-> 1, lng |-> 2], is_available |-> TRUE]
Loft ==
    [title |-> <<"A", "b">>, description |-> Some(<<"b", "a">>),
     price |-> 250, pricing_type |-> "daily", property_type |-> "room",
     facilities |-> << <<"a">> >>, media_urls |-> <<"u">>,
     location |-> [lat |-> 1, lng |-> 2, address |-> "x", zip |-> "0"],
     is_available |-> FALSE]
Shed ==
    [title |-> <<"b">>, description |-> NoValue, price |-> 0,
     pricing_type |-> "weekly", property_type |-> "other",
     facilities |-> <<>>, media_urls |-> <<>>,
     location |-> [lat |-> 1, lng |-> 2], is_available |-> TRUE]

ListingBodies == {Cottage, Loft, Shed}

Queries == {<<>>, <<"a">>, <<"$", "a">>, <<"b">>}
PropertyTypeFilters == {None, "house"}
PriceFilters == {NoValue, Some(150)}
\* is_available defaults to True: a request always carries a value.
AvailabilityFilters == {Some(TRUE), Some(FALSE)}

NextListings ==
    \/ /\ NextOid <= LstMaxDocs
       /\ RegisterPerson
    \/ /\ NextOid <= LstMaxDocs
       /\ \E token \in Tokens, body \in ListingBodies :
             create_listing(token, body)
    \/ \E q \in Queries, property_type \in PropertyTypeFilters,
          min_price \in PriceFilters, max_price \in PriceFilters,
          is_available \in AvailabilityFilters :
             search_listings(q, property_type, min_price, max_price,
                             is_available)
    \/ \E token \in Tokens, listing_id \in NamedIds(listings),
          is_available \in BOOLEAN :
             update_availability(token, listing_id, is_available)

SpecListings == Init /\ [][NextListings]_vars

\* q occurs in text as a literal substring.
IsSubstring(q, text) ==
    \E i \in 0..(Len(text) - Len(q)) : SubSeq(text, i + 1, i + Len(q)) = q

\* Every filter of the search matches listing l, as section 4.3 of the
\* specification reads them: exact property_type and is_available, price
\* within the inclusive bounds, q a substring of the title, the description
\* or a facility.
FiltersMatch(l, q, property_type, min_price, max_price, is_available) ==
    /\ property_type # None => l.property_type = property_type
    /\ is_available # NoValue => l.is_available = is_available[1]
    /\ min_price # NoValue => min_price[1] <= l.price
    /\ max_price # NoValue => l.price <= max_price[1]
    /\ q # <<>> =>
          \/ IsSubstring(q, l.title)
          \/ l.description # NoValue /\ IsSubstring(q, l.description[1])
          \/ \E k \in 1..Len(l.facilities) : IsSubstring(q, l.facilities[k])

\* C8: a search whose filters all match a stored listing L returns an item
\* with the fields of L and, as identifier, the string create_listing
\* returned for L.
C8_SearchReturnsCreated ==
    [][\A q \in Queries, property_type \in PropertyTypeFilters,
          min_price \in PriceFilters, max_price \in PriceFilters,
          is_available \in AvailabilityFilters :
          search_listings(q, property_type, min_price, max_price,
                          is_available)
          => \A i \in 1..Len(listings) :
                FiltersMatch(listings[i], q, property_type, min_price,
                             max_price, is_available)
                => \E k \in 1..Len(last'.body.items) :
                      last'.body.items[k] =
                         [listings[i] EXCEPT !._id = StrOid(listings[i]._id)]
      ]_vars

====
